---- MODULE Spec2Model ----
(***************************************************************************)
(* Model of modules/dns_proxy/dns_proxy_js_query.go: the JSQuery bridge    *)
(* between a dns.Msg and the script-facing generic representation, its     *)
(* reconstruction (ToQuery) and its fingerprint (NewHash / UpdateHash /    *)
(* WasModified).                                                           *)
(*                                                                         *)
(* Go strings are modelled as TLA+ strings and a formatted string          *)
(* (fmt.Sprintf, json.Marshal) as the sequence of the pieces it is the     *)
(* concatenation of.  An interface{} value is a record [k, s, n, b] whose  *)
(* k is the dynamic type; a map[string]interface{} is [nil, kv] with kv a  *)
(* function from its keys (nil: the nil map of an unfilled slot).          *)
(***************************************************************************)
EXTENDS Integers, Sequences, FiniteSets, TLC

\* ------------------------------------------------------------------ bounds
\* longest Answer list of an input message
MaxLen == 3
\* script edits per message
MaxEdits == 2

\* ------------------------------------------------------------ value model
StrV(x) == [k |-> "string", s |-> x, n |-> 0, b |-> FALSE]
U16V(x) == [k |-> "uint16", s |-> "", n |-> x, b |-> FALSE]
NumV(x) == [k |-> "number", s |-> "", n |-> x, b |-> FALSE]
BoolV(x) == [k |-> "bool", s |-> "", n |-> 0, b |-> x]

JSMap(f) == [nil |-> FALSE, kv |-> f]
NilMap == [nil |-> TRUE, kv |-> << >>]

Has(obj, key) == (~obj.nil) /\ key \in DOMAIN obj.kv

\* what a script sees of a value: Go's integer width is not visible to it
JSValue(v) == IF v.k = "uint16" THEN NumV(v.n) ELSE v

SeqUpTo(S, n) == UNION {[1..k -> S] : k \in 0..n}

RemoveAt(s, i) == [x \in 1..(Len(s) - 1) |-> IF x < i THEN s[x] ELSE s[x + 1]]

\* ---------------------------------------------------- formatting (fmt, json)
FmtBool(b) == IF b THEN "true" ELSE "false"

FmtInt(n) == ToString(n)

\* the keys a generic mapping may hold, in the order json.Marshal writes them
KeyOrder == <<"A", "Name", "Qclass", "Qtype", "Rrtype", "Target">>

MarshalValue(v) ==
    CASE v.k = "string" -> <<"\"", v.s, "\"">>
      [] v.k = "bool" -> <<FmtBool(v.b)>>
      [] OTHER -> <<FmtInt(v.n)>>

RECURSIVE MarshalFields(_, _, _)
MarshalFields(kv, i, first) ==
    IF i > Len(KeyOrder) THEN << >>
    ELSE IF KeyOrder[i] \in DOMAIN kv
         THEN (IF first THEN << >> ELSE <<",">>)
              \o <<"\"", KeyOrder[i], "\"", ":">> \o MarshalValue(kv[KeyOrder[i]])
              \o MarshalFields(kv, i + 1, FALSE)
         ELSE MarshalFields(kv, i + 1, first)

MarshalMap(obj) ==
    IF obj.nil THEN <<"null">>
    ELSE <<"{">> \o MarshalFields(obj.kv, 1, TRUE) \o <<"}">>

RECURSIVE MarshalElems(_, _)
MarshalElems(list, i) ==
    IF i > Len(list) THEN << >>
    ELSE (IF i = 1 THEN << >> ELSE <<",">>)
         \o MarshalMap(list[i]) \o MarshalElems(list, i + 1)

\* json.Marshal of a []map[string]interface{} (never a nil slice: NewJSQuery
\* makes each list)
Marshal(list) == <<"[">> \o MarshalElems(list, 1) \o <<"]">>

\* ------------------------------------------------------------ wire model
HeaderFields == {"AuthenticatedData", "Authoritative", "CheckingDisabled", "Id",
                 "Opcode", "Rcode", "RecursionAvailable", "RecursionDesired",
                 "Response", "Truncated", "Zero"}

\* the values a header field takes in the model
HeaderDom(f) ==
    CASE f = "Id" -> {42, 43}
      [] f = "Opcode" -> {0, 4}
      [] f = "Rcode" -> {0, 3}
      [] OTHER -> BOOLEAN

\* bit k of i
Bit(i, k) == (i \div (2 ^ k)) % 2 = 1

\* dns.MsgHdr values of the input messages: no two flags agree in all of them
Headers ==
    { [AuthenticatedData |-> Bit(0, k), Authoritative |-> Bit(1, k),
       CheckingDisabled |-> Bit(2, k), RecursionAvailable |-> Bit(3, k),
       RecursionDesired |-> Bit(4, k), Response |-> Bit(5, k),
       Truncated |-> Bit(6, k), Zero |-> Bit(7, k),
       Id |-> IF k = 0 THEN 43 ELSE 42, Opcode |-> IF k = 1 THEN 4 ELSE 0,
       Rcode |-> IF k = 2 THEN 3 ELSE 0] : k \in 0..2 }

\* record types the Record Codec converts (A, CNAME); any other type fails
Supported == {1, 5}

\* the key of the type-dependent field of a record's generic mapping
DataKey(rrtype) == IF rrtype = 1 THEN "A" ELSE "Target"

\* dns.RR values of the input messages; rrX is one the codec rejects
rrA == [Name |-> "a.", Rrtype |-> 1, Rdata |-> "10.0.0.7"]

rrC == [Name |-> "c.", Rrtype |-> 5, Rdata |-> "t."]

rrX == [Name |-> "x.", Rrtype |-> 99, Rdata |-> "raw"]

WireRRs == {rrA, rrC, rrX}

q1 == [Name |-> "example.com.", Qtype |-> 1, Qclass |-> 1]

q2 == [Name |-> "b.", Qtype |-> 28, Qclass |-> 3]

\* the <<Ns, Extra>> lists of the input messages
SideLists == {<<<< >>, << >>>>, <<<<rrA, rrC>>, << >>>>, <<<<rrX>>, <<rrA, rrC>>>>,
              <<<<rrC>>, <<rrX>>>>}

\* the input messages of the conversions
Msgs ==
    { [MsgHdr |-> h, Compress |-> c, Question |-> q, Answer |-> a,
       Ns |-> side[1], Extra |-> side[2]] :
       h \in Headers, c \in BOOLEAN, q \in {<< >>, <<q1>>, <<q2, q1>>},
       a \in SeqUpTo(WireRRs, MaxLen), side \in SideLists }

IPs == {"10.0.0.2"}

\* what session.I.Lan.GetByIp returns: nil, or an endpoint
NoEndpoint == [found |-> FALSE, HwAddress |-> "", Alias |-> ""]

Endpoints == {NoEndpoint, [found |-> TRUE, HwAddress |-> "aa:bb", Alias |-> "tv"]}

\* the inputs a script is run on: a query with no records from a client the
\* address book does not know, and a response with records in every list
ScriptInputs ==
    { [query |-> [MsgHdr |-> h, Compress |-> FALSE, Question |-> <<q1>>,
                  Answer |-> << >>, Ns |-> << >>, Extra |-> << >>],
       endpoint |-> NoEndpoint] : h \in {x \in Headers : x.RecursionDesired} }
    \cup
    { [query |-> [MsgHdr |-> h, Compress |-> TRUE, Question |-> <<q1>>,
                  Answer |-> <<rrA, rrX, rrC>>, Ns |-> <<rrC>>, Extra |-> <<rrX>>],
       endpoint |-> e] : h \in {x \in Headers : x.Authoritative /\ x.Zero},
                         e \in Endpoints \ {NoEndpoint} }

\* ------------------------------------------------- field coercion helpers
jsPropToString(obj, key) ==
    IF Has(obj, key) /\ obj.kv[key].k = "string" THEN obj.kv[key].s ELSE ""

jsPropToUint16(obj, key) ==
    IF Has(obj, key) /\ obj.kv[key].k \in {"uint16", "number"}
    THEN obj.kv[key].n ELSE 0

\* ------------------------------------------------------------ record codec
NewJSResourceRecord(rr) ==
    IF rr.Rrtype \in Supported
    THEN [err |-> FALSE, msg |-> "",
          rec |-> JSMap(("Name" :> StrV(rr.Name)) @@ ("Rrtype" :> U16V(rr.Rrtype))
                        @@ (DataKey(rr.Rrtype) :> StrV(rr.Rdata)))]
    ELSE [err |-> TRUE, msg |-> "error creating record", rec |-> NilMap]

ToRR(obj) ==
    LET rrtype == jsPropToUint16(obj, "Rrtype")
    IN IF obj.nil \/ rrtype \notin Supported
       THEN [err |-> TRUE, msg |-> "error converting record",
             rr |-> [Name |-> "", Rrtype |-> 0, Rdata |-> ""]]
       ELSE [err |-> FALSE, msg |-> "",
             rr |-> [Name |-> jsPropToString(obj, "Name"), Rrtype |-> rrtype,
                     Rdata |-> jsPropToString(obj, DataKey(rrtype))]]

\* ------------------------------------------------------------- fingerprint
HeaderHash(h) ==
    <<FmtBool(h.AuthenticatedData), ".", FmtBool(h.Authoritative), ".",
      FmtBool(h.CheckingDisabled), ".", FmtInt(h.Id), ".", FmtInt(h.Opcode), ".",
      FmtInt(h.Rcode), ".", FmtBool(h.RecursionAvailable), ".",
      FmtBool(h.RecursionDesired), ".", FmtBool(h.Response), ".",
      FmtBool(h.Truncated), ".", FmtBool(h.Zero)>>

\* NewHash with the Zero flag left out of the header format
NewHashNoZero(j) ==
    Marshal(j.Answers) \o <<".", j.Client.IP, ".", FmtBool(j.Compress), ".">>
    \o Marshal(j.Extras) \o <<".">> \o SubSeq(HeaderHash(j.Header), 1, 19) \o <<".">>
    \o Marshal(j.Nameservers) \o <<".">> \o Marshal(j.Questions)

\* NewHash with the whole Client mapping hashed, not only its IP
NewHashWithMAC(j) ==
    Marshal(j.Answers) \o <<".", j.Client.IP, j.Client.MAC, ".", FmtBool(j.Compress), ".">>
    \o Marshal(j.Extras) \o <<".">> \o HeaderHash(j.Header) \o <<".">>
    \o Marshal(j.Nameservers) \o <<".">> \o Marshal(j.Questions)

\* NewHash keyed on the client's alias as well
NewHashWithAlias(j) ==
    Marshal(j.Answers) \o <<".", j.Client.IP, j.Client.Alias, ".", FmtBool(j.Compress), ".">>
    \o Marshal(j.Extras) \o <<".">> \o HeaderHash(j.Header) \o <<".">>
    \o Marshal(j.Nameservers) \o <<".">> \o Marshal(j.Questions)

NewHash(j) ==
    Marshal(j.Answers) \o <<".", j.Client.IP, ".", FmtBool(j.Compress), ".">>
    \o Marshal(j.Extras) \o <<".">> \o HeaderHash(j.Header) \o <<".">>
    \o Marshal(j.Nameservers) \o <<".">> \o Marshal(j.Questions)

UpdateHash(j) == [j EXCEPT !.refHash = NewHash(j)]

WasModified(j) == NewHash(j) # j.refHash

\* ------------------------------------------------------------ construction
\* one loop of NewJSQuery: slot i is filled when the codec succeeds and is
\* left as make() created it (the nil map) when it fails
FillSlots(rrs) ==
    [i \in 1..Len(rrs) |->
        IF NewJSResourceRecord(rrs[i]).err THEN NilMap
        ELSE NewJSResourceRecord(rrs[i]).rec]

RECURSIVE EncodeErrors(_, _)
EncodeErrors(rrs, i) ==
    IF i > Len(rrs) THEN << >>
    ELSE (IF NewJSResourceRecord(rrs[i]).err
          THEN <<NewJSResourceRecord(rrs[i]).msg>> ELSE << >>)
         \o EncodeErrors(rrs, i + 1)

JSQuestion(q) ==
    JSMap([Name |-> StrV(q.Name), Qtype |-> U16V(q.Qtype), Qclass |-> U16V(q.Qclass)])

BuildJSQuery(query, clientIP, endpoint) ==
    [Answers |-> FillSlots(query.Answer),
     Client |-> [IP |-> clientIP,
                 MAC |-> IF endpoint.found THEN endpoint.HwAddress ELSE "",
                 Alias |-> IF endpoint.found THEN endpoint.Alias ELSE ""],
     Compress |-> query.Compress,
     Extras |-> FillSlots(query.Extra),
     Header |-> [f \in HeaderFields |-> query.MsgHdr[f]],
     Nameservers |-> FillSlots(query.Ns),
     Questions |-> [i \in 1..Len(query.Question) |-> JSQuestion(query.Question[i])],
     refHash |-> << >>]

\* NewJSQuery taking the fingerprint before the questions are stored
NewJSQueryStaleHash(query, clientIP, endpoint) ==
    [j |-> [UpdateHash([BuildJSQuery(query, clientIP, endpoint)
                            EXCEPT !.Questions = << >>])
               EXCEPT !.Questions = BuildJSQuery(query, clientIP, endpoint).Questions],
     errs |-> EncodeErrors(query.Answer, 1) \o EncodeErrors(query.Extra, 1)
              \o EncodeErrors(query.Ns, 1)]

NewJSQuery(query, clientIP, endpoint) ==
    [j |-> UpdateHash(BuildJSQuery(query, clientIP, endpoint)),
     errs |-> EncodeErrors(query.Answer, 1) \o EncodeErrors(query.Extra, 1)
              \o EncodeErrors(query.Ns, 1)]

\* ---------------------------------------------------------- reconstruction
\* one loop of ToQuery: the records the codec converts, appended in order
RECURSIVE Converted(_, _)
Converted(list, i) ==
    IF i > Len(list) THEN << >>
    ELSE (IF ToRR(list[i]).err THEN << >> ELSE <<ToRR(list[i]).rr>>)
         \o Converted(list, i + 1)

RECURSIVE DecodeErrors(_, _)
DecodeErrors(list, i) ==
    IF i > Len(list) THEN << >>
    ELSE (IF ToRR(list[i]).err THEN <<ToRR(list[i]).msg>> ELSE << >>)
         \o DecodeErrors(list, i + 1)

\* the loop with break in place of continue
RECURSIVE ConvertedUntilError(_, _)
ConvertedUntilError(list, i) ==
    IF i > Len(list) \/ ToRR(list[i]).err THEN << >>
    ELSE <<ToRR(list[i]).rr>> \o ConvertedUntilError(list, i + 1)

WireQuestion(jsQ) ==
    [Name |-> jsPropToString(jsQ, "Name"), Qtype |-> jsPropToUint16(jsQ, "Qtype"),
     Qclass |-> jsPropToUint16(jsQ, "Qclass")]

\* the questions with Qtype read for both numeric fields
WireQuestionOneKey(jsQ) ==
    [Name |-> jsPropToString(jsQ, "Name"), Qtype |-> jsPropToUint16(jsQ, "Qtype"),
     Qclass |-> jsPropToUint16(jsQ, "Qtype")]

ToQueryErrors(j) ==
    DecodeErrors(j.Answers, 1) \o DecodeErrors(j.Extras, 1)
    \o DecodeErrors(j.Nameservers, 1)

\* ToQuery with Ns and Extra assigned each other's list
ToQuerySwapped(j) ==
    [msg |-> [MsgHdr |-> [f \in HeaderFields |-> j.Header[f]],
              Compress |-> j.Compress,
              Question |-> [i \in 1..Len(j.Questions) |-> WireQuestion(j.Questions[i])],
              Answer |-> Converted(j.Answers, 1),
              Ns |-> Converted(j.Extras, 1),
              Extra |-> Converted(j.Nameservers, 1)],
     errs |-> ToQueryErrors(j)]

\* ToQuery giving up on a list at its first failing record
ToQueryBreak(j) ==
    [msg |-> [MsgHdr |-> [f \in HeaderFields |-> j.Header[f]],
              Compress |-> j.Compress,
              Question |-> [i \in 1..Len(j.Questions) |-> WireQuestion(j.Questions[i])],
              Answer |-> ConvertedUntilError(j.Answers, 1),
              Ns |-> ConvertedUntilError(j.Nameservers, 1),
              Extra |-> ConvertedUntilError(j.Extras, 1)],
     errs |-> ToQueryErrors(j)]

\* ToQuery with the copy-pasted question key
ToQueryOneKey(j) ==
    [msg |-> [MsgHdr |-> [f \in HeaderFields |-> j.Header[f]],
              Compress |-> j.Compress,
              Question |-> [i \in 1..Len(j.Questions) |-> WireQuestionOneKey(j.Questions[i])],
              Answer |-> Converted(j.Answers, 1),
              Ns |-> Converted(j.Nameservers, 1),
              Extra |-> Converted(j.Extras, 1)],
     errs |-> ToQueryErrors(j)]

ToQuery(j) ==
    [msg |-> [MsgHdr |-> [f \in HeaderFields |-> j.Header[f]],
              Compress |-> j.Compress,
              Question |-> [i \in 1..Len(j.Questions) |-> WireQuestion(j.Questions[i])],
              Answer |-> Converted(j.Answers, 1),
              Ns |-> Converted(j.Nameservers, 1),
              Extra |-> Converted(j.Extras, 1)],
     errs |-> ToQueryErrors(j)]

\* -------------------------------------------------------------------- state
VARIABLES
    query,      \* the wire message NewJSQuery was given
    clientIP,   \* the client address NewJSQuery was given
    j,          \* the JSQuery
    log,        \* what the last call passed to log.Error, in order
    ret,        \* the last call and what it returned
    edits,      \* edits the script made
    base        \* history: j as it was when refHash was last stored

vars == <<query, clientIP, j, log, ret, edits, base>>

Returned(op, msg, modified) == [op |-> op, msg |-> msg, modified |-> modified]

Built(q, ip, endpoint) ==
    /\ query = q
    /\ clientIP = ip
    /\ j = NewJSQuery(q, ip, endpoint).j
    /\ log = NewJSQuery(q, ip, endpoint).errs
    /\ ret = Returned("NewJSQuery", << >>, FALSE)
    /\ edits = 0
    /\ base = j

Init == \E s \in ScriptInputs, ip \in IPs : Built(s.query, ip, s.endpoint)

InitConv == \E q \in Msgs, ip \in IPs, endpoint \in Endpoints : Built(q, ip, endpoint)

\* ---------------------------------------------------------- the host's calls
\* ToQuery that also stores a new baseline
CallToQueryRefresh ==
    /\ LET r == ToQuery(j)
       IN /\ ret' = Returned("ToQuery", <<r.msg>>, FALSE)
          /\ log' = r.errs
    /\ j' = UpdateHash(j)
    /\ UNCHANGED <<query, clientIP, edits, base>>

CallToQuery ==
    /\ LET r == ToQuery(j)
       IN /\ ret' = Returned("ToQuery", <<r.msg>>, FALSE)
          /\ log' = r.errs
    /\ UNCHANGED <<query, clientIP, j, edits, base>>

\* WasModified that stores what it computed
CallWasModifiedRefresh ==
    /\ ret' = Returned("WasModified", << >>, WasModified(j))
    /\ j' = UpdateHash(j)
    /\ log' = << >>
    /\ UNCHANGED <<query, clientIP, edits, base>>

CallWasModified ==
    /\ ret' = Returned("WasModified", << >>, WasModified(j))
    /\ log' = << >>
    /\ UNCHANGED <<query, clientIP, j, edits, base>>

CallUpdateHash ==
    /\ j' = UpdateHash(j)
    /\ base' = j'
    /\ ret' = Returned("UpdateHash", << >>, FALSE)
    /\ log' = << >>
    /\ UNCHANGED <<query, clientIP, edits>>

\* --------------------------------------------------------- the script's edits
RecordLists == {"Answers", "Extras", "Nameservers"}

QuestionKeys == {"Name", "Qtype", "Qclass"}

\* values a script assigns to a question field
ScriptVals == {StrV("example.com."), StrV("evil."), NumV(1), NumV(28)}

\* records a script appends: a well-formed one and one the codec rejects
ScriptRecords ==
    { JSMap([Name |-> StrV("evil."), Rrtype |-> NumV(1), A |-> StrV("10.6.6.6")]),
      JSMap([Name |-> StrV("evil."), Rrtype |-> StrV("A")]) }

\* strings a script assigns to a Client entry
ClientVals == {"10.0.0.9"}

\* the script runs on the JSQuery as it was built: the host stores a new
\* baseline only once the script has returned
ScriptRunning == j.refHash = NewJSQuery(query, clientIP, NoEndpoint).j.refHash

Edited(new) ==
    /\ j' = new
    /\ edits' = edits + 1
    /\ ret' = Returned("script", << >>, FALSE)
    /\ log' = << >>
    /\ UNCHANGED <<query, clientIP, base>>

SetHeader(f, v) ==
    /\ v # j.Header[f]
    /\ Edited([j EXCEPT !.Header[f] = v])

SetCompress(v) ==
    /\ v # j.Compress
    /\ Edited([j EXCEPT !.Compress = v])

SetQuestion(i, key, v) ==
    /\ ~j.Questions[i].nil
    /\ key \in DOMAIN j.Questions[i].kv => JSValue(j.Questions[i].kv[key]) # v
    /\ Edited([j EXCEPT !.Questions[i] =
                  JSMap([k \in (DOMAIN j.Questions[i].kv) \cup {key} |->
                            IF k = key THEN v ELSE j.Questions[i].kv[k]])])

DeleteQuestionKey(i, key) ==
    /\ Has(j.Questions[i], key)
    /\ Edited([j EXCEPT !.Questions[i] =
                  JSMap([k \in (DOMAIN j.Questions[i].kv) \ {key} |->
                            j.Questions[i].kv[k]])])

AppendRecord(list, rec) == Edited([j EXCEPT ![list] = Append(j[list], rec)])

RemoveRecord(list, i) == Edited([j EXCEPT ![list] = RemoveAt(j[list], i)])

SetClient(key, v) ==
    /\ v # j.Client[key]
    /\ Edited([j EXCEPT !.Client[key] = v])

CanEdit == edits < MaxEdits /\ ScriptRunning

Script ==
    \/ CanEdit /\ \E f \in HeaderFields : \E v \in HeaderDom(f) : SetHeader(f, v)
    \/ CanEdit /\ \E v \in BOOLEAN : SetCompress(v)
    \/ CanEdit /\ \E i \in 1..Len(j.Questions), key \in QuestionKeys, v \in ScriptVals :
                     SetQuestion(i, key, v)
    \/ CanEdit /\ \E i \in 1..Len(j.Questions), key \in QuestionKeys :
                     DeleteQuestionKey(i, key)
    \/ CanEdit /\ \E list \in RecordLists, rec \in ScriptRecords : AppendRecord(list, rec)
    \/ CanEdit /\ \E list \in RecordLists : \E i \in 1..Len(j[list]) : RemoveRecord(list, i)
    \/ CanEdit /\ \E key \in {"IP", "MAC", "Alias"}, v \in ClientVals : SetClient(key, v)

Host == CallToQuery \/ CallWasModified \/ CallUpdateHash

Next == Script \/ Host

Spec == Init /\ [][Next]_vars

SpecConv == InitConv /\ [][Host]_vars

\* ------------------------------------------------ vocabulary of the properties
Fresh == NewJSQuery(query, clientIP, NoEndpoint).j

JSViewMap(obj) ==
    IF obj.nil THEN obj ELSE JSMap([k \in DOMAIN obj.kv |-> JSValue(obj.kv[k])])

JSView(list) == [i \in 1..Len(list) |-> JSViewMap(list[i])]

\* a and b hold the same values, as a script sees them, in every field NewHash reads
SameContent(a, b) ==
    /\ JSView(a.Answers) = JSView(b.Answers)
    /\ JSView(a.Extras) = JSView(b.Extras)
    /\ JSView(a.Nameservers) = JSView(b.Nameservers)
    /\ JSView(a.Questions) = JSView(b.Questions)
    /\ a.Client.IP = b.Client.IP
    /\ a.Compress = b.Compress
    /\ a.Header = b.Header

\* a and b are equal in every field NewHash reads
SameFields(a, b) ==
    /\ a.Answers = b.Answers
    /\ a.Extras = b.Extras
    /\ a.Nameservers = b.Nameservers
    /\ a.Questions = b.Questions
    /\ a.Client.IP = b.Client.IP
    /\ a.Compress = b.Compress
    /\ a.Header = b.Header

\* the property of a mapping as a script reads it: <<>> when it is missing
Prop(obj, key) == IF Has(obj, key) THEN <<JSValue(obj.kv[key])>> ELSE << >>

Failing(list) == {i \in 1..Len(list) : ToRR(list[i]).err}

Rejected(rrs) == {i \in 1..Len(rrs) : NewJSResourceRecord(rrs[i]).err}

CodecSucceeds(rrs) ==
    \A i \in 1..Len(rrs) :
        /\ ~NewJSResourceRecord(rrs[i]).err
        /\ ~ToRR(NewJSResourceRecord(rrs[i]).rec).err

\* Client mappings no script edit above produces
OtherClients ==
    { [IP |-> "10.0.0.4", MAC |-> "", Alias |-> ""],
      [IP |-> "10.0.0.2", MAC |-> "cc:dd", Alias |-> "nas"] }

\* b is a with one header field given another value
HeaderEdit(a, b) ==
    \E f \in HeaderFields :
        /\ b.Header[f] # a.Header[f]
        /\ b = [a EXCEPT !.Header[f] = b.Header[f]]

\* b is a with Name, Qtype or Qclass of one question given another value (or removed)
QuestionEdit(a, b) ==
    /\ Len(b.Questions) = Len(a.Questions)
    /\ \E i \in 1..Len(a.Questions), key \in QuestionKeys :
          /\ b = [a EXCEPT !.Questions[i] = b.Questions[i]]
          /\ ~a.Questions[i].nil /\ ~b.Questions[i].nil
          /\ Prop(b.Questions[i], key) # Prop(a.Questions[i], key)
          /\ \A k \in QuestionKeys \ {key} :
                Prop(b.Questions[i], k) = Prop(a.Questions[i], k)

\* b is a with one record appended to or removed from one of the record lists
RecordEdit(a, b) ==
    \E list \in RecordLists :
        /\ b = [a EXCEPT ![list] = b[list]]
        /\ \/ /\ Len(b[list]) = Len(a[list]) + 1
              /\ SubSeq(b[list], 1, Len(a[list])) = a[list]
           \/ \E i \in 1..Len(a[list]) : b[list] = RemoveAt(a[list], i)

\* ---------------------------------------------------------------- properties

\* C1: for a message all of whose records the codec converts in both
\* directions, NewJSQuery followed by ToQuery with no edit in between returns a
\* message equal to it in every header field, Compress, and the Question,
\* Answer, Ns and Extra lists (same length, same order).
C1_RoundTrip ==
    (/\ ret.op = "ToQuery"
     /\ CodecSucceeds(query.Answer) /\ CodecSucceeds(query.Ns)
     /\ CodecSucceeds(query.Extra))
    => /\ \A f \in HeaderFields : ret.msg[1].MsgHdr[f] = query.MsgHdr[f]
       /\ ret.msg[1].Compress = query.Compress
       /\ ret.msg[1].Question = query.Question
       /\ ret.msg[1].Answer = query.Answer
       /\ ret.msg[1].Ns = query.Ns
       /\ ret.msg[1].Extra = query.Extra

C1_Witness ==
    /\ ret.op = "ToQuery"
    /\ CodecSucceeds(query.Answer) /\ CodecSucceeds(query.Ns)
    /\ CodecSucceeds(query.Extra)
    /\ Len(query.Answer) = 3 /\ query.Answer[1] # query.Answer[2]
    /\ Len(query.Ns) = 2 /\ query.Extra = << >>
    /\ Len(query.Question) = 2
    /\ ret.msg[1].Answer = query.Answer

\* C2: right after NewJSQuery returns (also when records failed conversion) and
\* right after UpdateHash, refHash equals NewHash() and WasModified() is false;
\* it stays false over every step that changes no fingerprinted field.
C2_BaselineFresh ==
    /\ (ret.op = "NewJSQuery" => (j.refHash = NewHash(j) /\ ~WasModified(j)))
    /\ [][/\ ret'.op = "UpdateHash" => (j'.refHash = NewHash(j') /\ ~WasModified(j'))
          /\ (~WasModified(j) /\ SameContent(j, j')) => ~WasModified(j')]_vars

C2_Witness ==
    /\ edits = 2
    /\ ret.op = "script"
    /\ base.Client.MAC = "10.0.0.9"
    /\ j.Client.Alias = "10.0.0.9" /\ base.Client.Alias = "tv"
    /\ \E i \in 1..Len(j.Answers) : j.Answers[i].nil
    /\ j.refHash = NewHash(j)
    /\ ~WasModified(j)

\* C3: from a JSQuery whose WasModified() is false, one edit that changes the
\* value of one header field, changes Name, Qtype or Qclass of one question, or
\* appends or removes one record of Answers, Extras or Nameservers makes
\* WasModified() true.
C3_Sensitive ==
    [][(/\ ~WasModified(j)
        /\ j'.refHash = j.refHash
        /\ HeaderEdit(j, j') \/ QuestionEdit(j, j') \/ RecordEdit(j, j'))
       => WasModified(j')]_vars

C3_Witness ==
    /\ edits = 1
    /\ ret.op = "script"
    /\ query.MsgHdr.RecursionDesired /\ query.MsgHdr.Id = 42
    /\ query.Answer = << >>
    /\ ~j.Header.RecursionDesired
    /\ HeaderEdit(base, j)
    /\ WasModified(j)

\* C4: NewJSQuery omits the slot of every record the codec fails on: each list
\* holds one entry per converted record (input length minus failures) and no
\* nil entry.
C4_DropPolicy ==
    ret.op = "NewJSQuery" =>
        /\ Len(j.Answers) = Len(query.Answer) - Cardinality(Rejected(query.Answer))
        /\ Len(j.Extras) = Len(query.Extra) - Cardinality(Rejected(query.Extra))
        /\ Len(j.Nameservers) = Len(query.Ns) - Cardinality(Rejected(query.Ns))
        /\ \A i \in 1..Len(j.Answers) : ~j.Answers[i].nil
        /\ \A i \in 1..Len(j.Extras) : ~j.Extras[i].nil
        /\ \A i \in 1..Len(j.Nameservers) : ~j.Nameservers[i].nil

\* C5: when the codec fails on exactly one of the N entries of Answers, ToQuery
\* returns N-1 answers, the conversions of the other entries in their order,
\* logs one error for it (one in all when no other list has a failing entry),
\* and returns the Extra, Ns and Question lists it returns without the failure.
C5_PartialFailure ==
    (ret.op = "ToQuery" /\ Cardinality(Failing(j.Answers)) = 1) =>
        LET k == CHOOSE i \in Failing(j.Answers) : TRUE
            others == RemoveAt(j.Answers, k)
            clean == ToQuery([j EXCEPT !.Answers = others]).msg
        IN /\ Len(ret.msg[1].Answer) = Len(j.Answers) - 1
           /\ ret.msg[1].Answer = [i \in 1..Len(others) |-> ToRR(others[i]).rr]
           /\ Len(log) = 1 + Cardinality(Failing(j.Extras))
                           + Cardinality(Failing(j.Nameservers))
           /\ ret.msg[1].Extra = clean.Extra
           /\ ret.msg[1].Ns = clean.Ns
           /\ ret.msg[1].Question = clean.Question

C5_Witness ==
    /\ ret.op = "ToQuery"
    /\ Len(j.Answers) = 3
    /\ Failing(j.Answers) = {2}
    /\ Len(ret.msg[1].Answer) = 2
    /\ ret.msg[1].Answer[1].Rrtype = 1 /\ ret.msg[1].Answer[2].Rrtype = 5
    /\ Len(log) = 1
    /\ Len(ret.msg[1].Ns) = 1

\* C6: ToQuery returns one wire question per entry of Questions, in order; a
\* missing or non-string Name becomes "", a missing or non-numeric Qtype or
\* Qclass becomes 0, and a well-typed field is copied unchanged.
C6_TolerantQuestions ==
    ret.op = "ToQuery" =>
        /\ Len(ret.msg) = 1
        /\ Len(ret.msg[1].Question) = Len(j.Questions)
        /\ \A i \in 1..Len(j.Questions) :
              LET jsQ == j.Questions[i]
                  q == ret.msg[1].Question[i]
                  str(key) == Has(jsQ, key) /\ jsQ.kv[key].k = "string"
                  num(key) == Has(jsQ, key) /\ jsQ.kv[key].k \in {"uint16", "number"}
              IN /\ q.Name = IF str("Name") THEN jsQ.kv["Name"].s ELSE ""
                 /\ q.Qtype = IF num("Qtype") THEN jsQ.kv["Qtype"].n ELSE 0
                 /\ q.Qclass = IF num("Qclass") THEN jsQ.kv["Qclass"].n ELSE 0

C6_Witness ==
    /\ ret.op = "ToQuery"
    /\ Len(j.Questions) = 1
    /\ Has(j.Questions[1], "Qtype") /\ j.Questions[1].kv["Qtype"].k = "string"
    /\ ~Has(j.Questions[1], "Name")
    /\ ret.msg[1].Question[1] = [Name |-> "", Qtype |-> 0, Qclass |-> 1]

\* C7: a WasModified call changes neither refHash nor any field, consecutive
\* calls with nothing in between return the same result, and the result is a
\* function of the current values: with the baseline's values put back it is
\* false again.
C7_Pure ==
    /\ [][ret'.op = "WasModified" =>
             /\ j' = j
             /\ ret'.modified = WasModified(j)
             /\ ret.op = "WasModified" => ret'.modified = ret.modified]_vars
    /\ [](SameContent(j, base) => ~WasModified(j))

C7_Witness ==
    /\ edits = 2
    /\ base.refHash = Fresh.refHash
    /\ SameContent(j, base)
    /\ j.Questions # base.Questions
    /\ ret.op = "WasModified"
    /\ ~ret.modified

\* C8: JSQuery values equal in Answers, Extras, Nameservers, Questions, Client
\* IP, Compress and Header have equal NewHash() results; the JSQuery values
\* NewJSQuery builds from one message and one client IP have the same
\* fingerprint whatever the address book returns.
C8_Deterministic ==
    LET fresh == Fresh
    IN \A e \in Endpoints :
          LET k == NewJSQuery(query, clientIP, e).j
          IN /\ SameFields(j, k) => NewHash(j) = NewHash(k)
             /\ k.refHash = fresh.refHash
             /\ NewHash(k) = fresh.refHash

C8_Witness ==
    /\ edits = 2
    /\ \E e \in Endpoints :
          LET k == NewJSQuery(query, clientIP, e).j
          IN /\ k.Client.MAC # j.Client.MAC
             /\ k.Client.Alias # j.Client.Alias
             /\ SameFields(j, k)
             /\ NewHash(j) = NewHash(k)

\* C9: no step changes the wire message NewJSQuery was given; ToQuery returns
\* the rebuilt message and changes neither a field of the JSQuery nor refHash,
\* so WasModified() is the same before and after it.
C9_Detached ==
    [][/\ query' = query
       /\ ret'.op = "ToQuery" =>
             /\ j' = j
             /\ ret'.msg = <<ToQuery(j).msg>>
             /\ WasModified(j') = WasModified(j)]_vars

C9_Witness ==
    /\ ret.op = "ToQuery"
    /\ edits = 2
    /\ WasModified(j)
    /\ j.Header # base.Header
    /\ ret.msg[1].MsgHdr # query.MsgHdr
    /\ base.refHash = Fresh.refHash

\* C10: an edit that changes only Client MAC and/or Alias leaves WasModified()
\* false, and the message ToQuery returns depends on no Client entry and not
\* on refHash.
C10_ClientOutside ==
    /\ [][(/\ ~WasModified(j)
           /\ j' # j
           /\ j' = [j EXCEPT !.Client = j'.Client]
           /\ j'.Client.IP = j.Client.IP)
          => ~WasModified(j')]_vars
    /\ [](\A c \in OtherClients :
             ToQuery([j EXCEPT !.Client = c, !.refHash = << >>]) = ToQuery(j))

C10_Witness ==
    /\ ret.op = "ToQuery"
    /\ j.Client.MAC # base.Client.MAC
    /\ j.Client.Alias # base.Client.Alias
    /\ j.Client.IP = base.Client.IP
    /\ ~WasModified(j)
    /\ Len(ret.msg[1].Answer) = 2

====
